---- MODULE Spec2Model ----
(***************************************************************************)
(* Model of umu/umu_util.py: installation and update of the umu runtime.   *)
(*                                                                         *)
(* The Install Directory (UMU_LOCAL, the `local` argument) is modelled by  *)
(* dirExists, its entries by fs and its umu_version.json by manifest.      *)
(* setup_umu runs on the main thread (pc); setup_runtime runs either on    *)
(* the main thread (fresh install) or on a worker of the executor of       *)
(* _update_umu (rtpc), and its _move tasks run on the workers of its own   *)
(* executor (tasks).  Spec is the sequence of setup_umu calls of a process; *)
(* SpecGetJson is one call of _get_json on any manifest file.              *)
(***************************************************************************)
EXTENDS Integers, FiniteSets, Sequences, TLC

\* Number of distinct runtime_platform version strings considered.
NumVersions == 2

Versions == 1..NumVersions

\* Version strings of the components without an artifact.
TagVersions == {1, 2}

\* ------------------------------------------------------------------------
\* Manifest (umu_version.json)

SimpleKeys == {"reaper", "launcher", "runner"}

Keys == SimpleKeys \cup {"runtime_platform"}

NoVersions == [k \in {} |-> 0]

\* A manifest file: absent, or its parsed content.  shape "ok" is
\* {"umu": {"versions": versions}}; "empty" is {}; "no_versions" is
\* {"umu": {...}} without a "versions" member.
NoFile == [shape |-> "absent", versions |-> NoVersions]

OkFile(f) == [shape |-> "ok", versions |-> f]

\* The keys of a manifest in the order of the file.
KeyOrder == <<"reaper", "runtime_platform", "launcher", "runner", "extra">>

\* The packaged manifest of a release with other components: no runner, and
\* a component ("extra") this code has no branch for.
OtherRelease == [k \in (Keys \ {"runner"}) \cup {"extra"} |-> 1]

\* Version mappings of the packaged (reference) manifest: the runtime at any
\* version, at most one simple component away from version 1; or the release
\* with other components.
RootVersions ==
    {f \in [Keys -> Versions \cup TagVersions] :
        /\ f["runtime_platform"] \in Versions
        /\ \A k \in SimpleKeys : f[k] \in TagVersions
        /\ Cardinality({k \in SimpleKeys : f[k] # 1}) <= 1}
        \cup {OtherRelease}

\* json["umu"]["versions"].items(): the keys of a mapping, in file order.
Items(versions) == SelectSeq(KeyOrder, LAMBDA k : k \in DOMAIN versions)

\* The umu_version.json found under `root` at a setup_umu call.
RootFiles ==
    {OkFile(f) : f \in RootVersions}
        \cup {NoFile,
              [shape |-> "empty", versions |-> NoVersions],
              [shape |-> "no_versions", versions |-> NoVersions],
              OkFile(NoVersions)}

\* Manifest files _get_json does not accept.
BadFiles == RootFiles \ {OkFile(f) : f \in RootVersions}

\* Mutant of _get_json: only the presence of "umu" is checked.
_get_jsonUmuOnly(file) ==
    IF file.shape = "absent"
    THEN [err |-> "FileNotFoundError", json |-> file]
    ELSE IF file.shape = "empty"
    THEN [err |-> "ValueError", json |-> file]
    ELSE [err |-> "none", json |-> file]

\* Mutant of _get_json: an empty "versions" mapping is accepted.
_get_jsonEmptyVersions(file) ==
    IF file.shape = "absent"
    THEN [err |-> "FileNotFoundError", json |-> file]
    ELSE IF file.shape # "ok"
    THEN [err |-> "ValueError", json |-> file]
    ELSE [err |-> "none", json |-> file]

\* _get_json: the loaded json, or the exception raised.
_get_json(file) ==
    IF file.shape = "absent"
    THEN [err |-> "FileNotFoundError", json |-> file]
    ELSE IF file.shape # "ok" \/ DOMAIN file.versions = {}
    THEN [err |-> "ValueError", json |-> file]
    ELSE [err |-> "none", json |-> file]

\* ------------------------------------------------------------------------
\* Install Directory entries

\* Entry names: a base and the version string the name ends with (0: none).
EntryPoint == [base |-> "_v2-entry-point", ver |-> 0]

Umu == [base |-> "umu", ver |-> 0]

PV == [base |-> "pressure-vessel", ver |-> 0]

PlatformDir(v) == [base |-> "sniper_platform_", ver |-> v]

Names == {EntryPoint, Umu, PV} \cup {PlatformDir(v) : v \in Versions}

\* An entry: kind, the version of the archive it was extracted from, and
\* whether it is an older directory into which a moved entry was nested.
NoEntry == [kind |-> "none", ver |-> 0, merged |-> FALSE]

IsDir(e) == e.kind = "dir"

Exists(e) == e.kind # "none"

\* Top-level entries of SteamLinuxRuntime_sniper/ in the archive of version v.
ArchiveEntries(v) == {EntryPoint, PV, PlatformDir(v)}

ArchiveEntry(v, n) ==
    [kind |-> IF n = EntryPoint THEN "file" ELSE "dir", ver |-> v, merged |-> FALSE]

\* local.glob(f"*{current}"): the entries whose name ends with current.
Glob(f, current) == {n \in Names : Exists(f[n]) /\ n.ver = current}

\* shutil.move(src_file, dest_file): into an existing directory, over an
\* existing file, or to a free name.
ShutilMove(dst, src) ==
    IF IsDir(dst)
    THEN [ok |-> ~dst.merged, entry |-> [dst EXCEPT !.merged = TRUE]]
    ELSE IF dst.kind = "file" /\ IsDir(src)
    THEN [ok |-> FALSE, entry |-> dst]
    ELSE [ok |-> TRUE, entry |-> src]

\* ------------------------------------------------------------------------
\* State

VARIABLES
    pc,          \* position of the main thread in setup_umu
    dirExists,   \* the Install Directory exists
    fs,          \* entries of the Install Directory other than the manifest
    manifest,    \* umu_version.json in the Install Directory
    json_root,   \* setup_umu/_update_umu: the loaded reference manifest
    json_local,  \* _update_umu: the loaded (and mutated) local manifest
    remaining,   \* _update_umu: items of json_root not yet iterated
    error,       \* the exception setup_umu raised ("none": none)
    rtpc,        \* position of the setup_runtime call
    rtver,       \* setup_runtime: runtime_platform_value
    staging,     \* setup_runtime: what exists under tmp
    tasks,       \* setup_runtime: state of the _move future of each entry
    rterr,       \* setup_runtime: the step that raised ("none": none)
    root_file,   \* umu_version.json under `root` at this invocation
    path,        \* history: paths setup_umu took in this invocation
    manifest0,   \* history: manifest file when the invocation started
    installed,   \* history: versions some setup_runtime installed completely
    removed,     \* history: entries the runtime_platform iteration removed
    replaced     \* history: entries whose destination directory _move removed

vars == <<pc, dirExists, fs, manifest, json_root, json_local, remaining,
          error, rtpc, rtver, staging, tasks, rterr, root_file, path, manifest0,
          installed, removed, replaced>>

mainVars == <<pc, json_root, json_local, remaining, error, root_file, path,
              manifest0, removed>>

rtVars == <<rtpc, rtver, staging, tasks, rterr, replaced>>

NoStaging == [tmp |-> FALSE, archive |-> FALSE, root |-> FALSE, files |-> {}]

NoTasks == [n \in Names |-> "none"]

RtFinished == rtpc \in {"done", "failed"}

Init ==
    /\ pc = "idle"
    /\ dirExists \in BOOLEAN
    /\ fs = [n \in Names |-> NoEntry]
    /\ manifest = NoFile
    /\ json_root = NoFile
    /\ json_local = NoFile
    /\ remaining = <<>>
    /\ error = "none"
    /\ root_file = NoFile
    /\ rtpc = "idle"
    /\ rterr = "none"
    /\ rtver = 0
    /\ staging = NoStaging
    /\ tasks = NoTasks
    /\ path = {}
    /\ manifest0 = NoFile
    /\ installed = {}
    /\ removed = {}
    /\ replaced = {}

\* ------------------------------------------------------------------------
\* setup_umu

\* Mutant of IsNewInstall: an existing empty directory is not a new install.
IsNewInstallAbsentOnly == ~dirExists

\* not local.exists() or not any(local.iterdir())
IsNewInstall ==
    ~dirExists \/ (manifest = NoFile /\ \A n \in Names : ~Exists(fs[n]))

SetupUmuAt(root) ==
    LET jr == _get_json(root)
        jl == _get_json(manifest)
    IN /\ pc = "idle"
       /\ rtpc = "idle"
       /\ manifest0' = manifest
       /\ root_file' = root
       /\ IF jr.err # "none"
          THEN /\ pc' = "raised"
               /\ error' = jr.err
               /\ UNCHANGED <<json_root, json_local, remaining, path>>
          ELSE IF IsNewInstall
          THEN /\ pc' = "install_mkdir"
               /\ error' = error
               /\ json_root' = jr.json
               /\ path' = {"install"}
               /\ UNCHANGED <<json_local, remaining>>
          ELSE IF jl.err # "none"
          THEN /\ pc' = "raised"
               /\ error' = jl.err
               /\ json_root' = jr.json
               /\ UNCHANGED <<json_local, remaining, path>>
          ELSE /\ pc' = "update_loop"
               /\ error' = error
               /\ json_root' = jr.json
               /\ json_local' = jl.json
               /\ remaining' = Items(jr.json.versions)
               /\ path' = {"update"}
       /\ UNCHANGED <<dirExists, fs, manifest, rtVars, installed, removed>>

setup_umu == \E root \in RootFiles : SetupUmuAt(root)

\* setup_umu has returned or raised; the process goes on to the next call
\* once no thread of the pool is left running.
Return ==
    /\ pc \in {"completed", "raised"}
    /\ rtpc \in {"idle", "done", "failed"}
    /\ pc' = "idle"
    /\ json_root' = NoFile
    /\ json_local' = NoFile
    /\ remaining' = <<>>
    /\ error' = "none"
    /\ root_file' = NoFile
    /\ rtpc' = "idle"
    /\ rterr' = "none"
    /\ rtver' = 0
    /\ staging' = NoStaging
    /\ tasks' = NoTasks
    /\ path' = {}
    /\ manifest0' = NoFile
    /\ removed' = {}
    /\ replaced' = {}
    /\ UNCHANGED <<dirExists, fs, manifest, installed>>

\* Between two calls, umu_version.json of an installed Install Directory is
\* deleted or overwritten with content _get_json rejects.
ManifestDamaged ==
    /\ pc = "idle"
    /\ rtpc = "idle"
    /\ manifest.shape = "ok"
    /\ DOMAIN manifest.versions # {}
    /\ \E file \in BadFiles : manifest' = file
    /\ UNCHANGED <<dirExists, fs, mainVars, rtVars, installed>>

\* ------------------------------------------------------------------------
\* _install_umu

InstallMkdir ==
    /\ pc = "install_mkdir"
    /\ dirExists' = TRUE
    /\ pc' = "install_copy"
    /\ UNCHANGED <<error, root_file, fs, manifest, json_root, json_local,
                   remaining, rtVars, path, manifest0, removed, installed>>

InstallCopy ==
    /\ pc = "install_copy"
    /\ manifest' = json_root
    /\ pc' = "install_runtime"
    /\ UNCHANGED <<error, root_file, dirExists, fs, json_root, json_local,
                   remaining, rtVars, path, manifest0, removed, installed>>

\* setup_runtime(json) called on the main thread
InstallRuntime ==
    /\ pc = "install_runtime"
    /\ rtpc' = "start"
    /\ pc' = "install_wait"
    /\ UNCHANGED <<error, root_file, rterr, dirExists, fs, manifest, json_root,
                   json_local, remaining, rtver, staging, tasks, replaced,
                   path, manifest0, removed, installed>>

InstallDone ==
    /\ pc = "install_wait"
    /\ RtFinished
    /\ pc' = IF rtpc = "done" THEN "completed" ELSE "raised"
    /\ error' = rterr
    /\ UNCHANGED <<root_file, dirExists, fs, manifest, json_root, json_local, remaining,
                   rtVars, path, manifest0, removed, installed>>

_install_umu == InstallMkdir \/ InstallCopy \/ InstallRuntime \/ InstallDone

\* ------------------------------------------------------------------------
\* setup_runtime

\* Values of the environment variable UMU_ZENITY.
EnvValues == {"unset", "1", "0"}

\* tmp = mkdtemp(); runtime_platform_value = json[...]["runtime_platform"]
RtStart ==
    /\ rtpc = "start"
    /\ staging' = [NoStaging EXCEPT !.tmp = TRUE]
    /\ IF "runtime_platform" \in DOMAIN json_root.versions
       THEN /\ rtver' = json_root.versions["runtime_platform"]
            /\ rtpc' = "fetch"
            /\ rterr' = rterr
       ELSE /\ rtver' = rtver
            /\ rtpc' = "failed"
            /\ rterr' = "KeyError"
    /\ UNCHANGED <<dirExists, fs, manifest, mainVars, tasks, replaced, installed>>

\* The download: whether the archive is in tmp afterwards, and whether the
\* direct fetch raised.  env is UMU_ZENITY, zenity the exit code of
\* enable_zenity, http whether urlopen answered with status 200.
Fetch(env, zenity, http) ==
    LET ret == IF env = "1" THEN zenity ELSE 0
        popupArchive == env = "1" /\ ret = 0
        direct == env = "unset" \/ ret # 0
    IN [archive |-> IF direct THEN http ELSE popupArchive,
        raised |-> direct /\ ~http]

\* Mutant of AfterFetch: the status of the response is not looked at.
AfterFetchOpen(r) == "open"

\* raise HTTPException(err), or on to tar_open
AfterFetch(r) == IF r.raised THEN "failed" ELSE "open"

RtFetch ==
    /\ rtpc = "fetch"
    /\ \E env \in EnvValues, zenity \in {0, 1}, http \in BOOLEAN :
          LET r == Fetch(env, zenity, http)
          IN /\ staging' = [staging EXCEPT !.archive = r.archive]
             /\ rtpc' = AfterFetch(r)
             /\ rterr' = IF r.raised THEN "urlopen" ELSE rterr
    /\ UNCHANGED <<dirExists, fs, manifest, mainVars, rtver, tasks, replaced,
                   installed>>

\* tar_open(tmp.joinpath(archive), "r:xz")
RtOpen ==
    /\ rtpc = "open"
    /\ \E readable \in BOOLEAN :
          /\ rtpc' = IF staging.archive /\ readable THEN "mkdir" ELSE "failed"
          /\ rterr' = IF staging.archive /\ readable THEN rterr ELSE "tar_open"
    /\ UNCHANGED <<dirExists, fs, manifest, mainVars, rtver, staging, tasks, replaced,
                   installed>>

\* UMU_LOCAL.mkdir(parents=True, exist_ok=True)
RtMkdir ==
    /\ rtpc = "mkdir"
    /\ dirExists' = TRUE
    /\ rtpc' = "extract"
    /\ UNCHANGED <<rterr, fs, manifest, mainVars, rtver, staging, tasks,
                   replaced, installed>>

\* tar.extract of every member under SteamLinuxRuntime_sniper/; a failure
\* leaves the members extracted so far.
RtExtract ==
    /\ rtpc = "extract"
    /\ \/ /\ staging' = [staging EXCEPT !.root = TRUE,
                                         !.files = ArchiveEntries(rtver)]
          /\ rtpc' = "submit"
          /\ rterr' = rterr
       \/ /\ \E n \in ArchiveEntries(rtver) :
                staging' = [staging EXCEPT !.root = TRUE,
                                            !.files = ArchiveEntries(rtver) \ {n}]
          /\ rtpc' = "failed"
          /\ rterr' = "extract"
    /\ UNCHANGED <<dirExists, fs, manifest, mainVars, rtver, tasks, replaced,
                   installed>>

\* executor.submit(_move, file, source_dir, UMU_LOCAL) for every entry
RtSubmit ==
    /\ rtpc = "submit"
    /\ tasks' = [n \in Names |-> IF n \in staging.files THEN "pending" ELSE "none"]
    /\ rtpc' = "relocate"
    /\ UNCHANGED <<rterr, dirExists, fs, manifest, mainVars, rtver, staging, replaced,
                   installed>>

\* Mutant of DirAfterRmtree: rmtree is given the Install Directory.
DirAfterRmtreeAll(d, names) == IF names = {} THEN d ELSE FALSE

\* Whether the Install Directory exists after rmtree of its entries names:
\* rmtree(runtime), rmtree(local/"pressure-vessel"), rmtree(dest_file).
DirAfterRmtree(d, names) == d

\* Mutant of RemoveDest: removing a destination directory takes the
\* pressure-vessel directory with it.
RemoveDestAndMarker(f, n) ==
    IF IsDir(f[n]) THEN [f EXCEPT ![n] = NoEntry, ![PV] = NoEntry] ELSE f

\* Mutant of RemoveDest: an existing destination directory is kept.
RemoveDestNothing(f, n) == f

\* _move, first half: if dest_file.is_dir(): rmtree(dest_file)
RemoveDest(f, n) == IF IsDir(f[n]) THEN [f EXCEPT ![n] = NoEntry] ELSE f

MoveCheck(n) ==
    /\ rtpc = "relocate"
    /\ tasks[n] = "pending"
    /\ \/ /\ fs' = RemoveDest(fs, n)
          /\ dirExists' = DirAfterRmtree(dirExists, IF IsDir(fs[n]) THEN {n} ELSE {})
          /\ tasks' = [tasks EXCEPT ![n] = "checked"]
          /\ replaced' = IF IsDir(fs[n]) THEN replaced \cup {n} ELSE replaced
       \/ /\ IsDir(fs[n])
          /\ fs' = fs
          /\ dirExists' = dirExists
          /\ tasks' = [tasks EXCEPT ![n] = "failed"]
          /\ replaced' = replaced
    /\ UNCHANGED <<rterr, manifest, mainVars, rtpc, rtver, staging, installed>>

\* _move, second half: if src.is_file() or src.is_dir(): move(src_file, dest_file)
MoveMove(n) ==
    /\ rtpc = "relocate"
    /\ tasks[n] = "checked"
    /\ LET r == ShutilMove(fs[n], ArchiveEntry(rtver, n))
       IN IF ~staging.root
          THEN /\ tasks' = [tasks EXCEPT ![n] = "done"]
               /\ UNCHANGED <<fs, staging>>
          ELSE \/ /\ r.ok
                  /\ fs' = [fs EXCEPT ![n] = r.entry]
                  /\ staging' = [staging EXCEPT !.files = @ \ {n}]
                  /\ tasks' = [tasks EXCEPT ![n] = "done"]
               \/ /\ tasks' = [tasks EXCEPT ![n] = "failed"]
                  /\ UNCHANGED <<fs, staging>>
    /\ UNCHANGED <<rterr, dirExists, manifest, mainVars, rtpc, rtver, replaced,
                   installed>>

_move == \E n \in Names : MoveCheck(n) \/ MoveMove(n)

\* Whether the relocation can be left: every future has a result.
MovesComplete(t) == \A n \in Names : t[n] \in {"none", "done", "failed"}

\* Mutant of MovesRaise: the results of the futures are not looked at.
MovesRaiseNever(t) == FALSE

\* Whether some _.result() raises.
MovesRaise(t) == \E n \in Names : t[n] = "failed"

\* for _ in futures: _.result(), and the executor's shutdown(wait=True) at
\* the end of the with block
RtJoin ==
    /\ rtpc = "relocate"
    /\ MovesComplete(tasks)
    /\ rtpc' = IF MovesRaise(tasks) THEN "failed" ELSE "cleanup"
    /\ rterr' = IF MovesRaise(tasks) THEN "_move" ELSE rterr
    /\ replaced' = {}
    /\ UNCHANGED <<dirExists, fs, manifest, mainVars, rtver, staging, tasks,
                   installed>>

\* rmtree(tmp/SteamLinuxRuntime_sniper); tmp.joinpath(archive).unlink()
RtCleanup ==
    /\ rtpc = "cleanup"
    /\ staging' = [staging EXCEPT !.root = FALSE, !.files = {}, !.archive = FALSE]
    /\ rtpc' = "rename"
    /\ UNCHANGED <<rterr, dirExists, fs, manifest, mainVars, rtver, tasks,
                   replaced, installed>>

\* Path.rename: fails without the source, or onto a directory.
RenameOk(f) == f[EntryPoint].kind = "file" /\ ~IsDir(f[Umu])

\* Mutant of Rename: the entry point is copied, the source stays.
RenameCopy(f) == [f EXCEPT ![Umu] = f[EntryPoint]]

Rename(f) == [f EXCEPT ![Umu] = f[EntryPoint], ![EntryPoint] = NoEntry]

\* UMU_LOCAL.joinpath("_v2-entry-point").rename(UMU_LOCAL.joinpath("umu"))
RtRename ==
    /\ rtpc = "rename"
    /\ \/ /\ RenameOk(fs)
          /\ fs' = Rename(fs)
          /\ rtpc' = "done"
          /\ installed' = installed \cup {rtver}
          /\ rterr' = rterr
       \/ /\ rtpc' = "failed"
          /\ rterr' = "rename"
          /\ UNCHANGED <<fs, installed>>
    /\ UNCHANGED <<dirExists, manifest, mainVars, rtver, staging, tasks, replaced>>

setup_runtime ==
    \/ RtStart \/ RtFetch \/ RtOpen \/ RtMkdir \/ RtExtract \/ RtSubmit
    \/ RtJoin \/ RtCleanup \/ RtRename

\* ------------------------------------------------------------------------
\* _update_umu

\* Mutant of UpdateSimple: every key but runtime_platform is copied from the
\* reference, whether the local manifest has it or not.
UpdateSimpleAnyKey(versions, key, val) ==
    IF key = "runtime_platform"
    THEN versions
    ELSE [k \in DOMAIN versions \cup {key} |-> IF k = key THEN val ELSE versions[k]]

\* Mutant of UpdateSimple: a differing component overwrites every simple one.
UpdateSimpleAll(versions, key, val) ==
    IF key \in SimpleKeys /\ val # versions[key]
    THEN [k \in DOMAIN versions |-> IF k \in SimpleKeys THEN val ELSE versions[k]]
    ELSE versions

\* The reaper/launcher/runner branches (and no branch for any other key):
\* the local versions after the iteration of key.
UpdateSimple(versions, key, val) ==
    IF key \in SimpleKeys /\ val # versions[key]
    THEN [versions EXCEPT ![key] = val]
    ELSE versions

\* A loop iteration for a key other than runtime_platform.
UpdateKey ==
    /\ pc = "update_loop"
    /\ remaining # <<>>
    /\ Head(remaining) # "runtime_platform"
    /\ LET key == Head(remaining)
       IN /\ remaining' = Tail(remaining)
          /\ IF key \in SimpleKeys /\ key \notin DOMAIN json_local.versions
             THEN /\ pc' = "raised"
                  /\ error' = "KeyError"
                  /\ json_local' = json_local
             ELSE /\ pc' = pc
                  /\ error' = error
                  /\ json_local' =
                        [json_local EXCEPT
                            !.versions = UpdateSimple(@, key, json_root.versions[key])]
    /\ UNCHANGED <<root_file, dirExists, fs, manifest, json_root, rtVars, path,
                   manifest0, removed, installed>>

\* No entry matched the glob.
NoName == [base |-> "", ver |-> 0]

\* Mutant of RuntimeBranch: an intact runtime is updated whatever its version.
RuntimeBranchAlways(f, runtime, val, current) ==
    IF runtime = NoName \/ ~IsDir(f[PV]) THEN "restore" ELSE "update"

\* Mutant of RuntimeBranch: the pressure-vessel marker is not looked at.
RuntimeBranchNoMarker(f, runtime, val, current) ==
    IF runtime = NoName
    THEN "restore"
    ELSE IF val # current
    THEN "update"
    ELSE "none"

\* The branch of the runtime_platform iteration: "restore" (runtime or
\* pressure-vessel absent), "update" (both there, versions differ), "none".
RuntimeBranch(f, runtime, val, current) ==
    IF runtime = NoName \/ ~IsDir(f[PV])
    THEN "restore"
    ELSE IF val # current
    THEN "update"
    ELSE "none"

\* Mutant of RuntimeRemove: restoring leaves the versioned directory.
RuntimeRemoveMarkerOnly(f, runtime, branch) ==
    LET f1 == IF runtime # NoName /\ branch = "update"
              THEN [f EXCEPT ![runtime] = NoEntry]
              ELSE f
    IN IF branch \in {"restore", "update"} THEN RemoveDest(f1, PV) ELSE f

\* The rmtree calls of a branch.
RuntimeRemove(f, runtime, branch) ==
    LET f1 == IF runtime # NoName /\ (branch = "update" \/ IsDir(f[runtime]))
              THEN [f EXCEPT ![runtime] = NoEntry]
              ELSE f
    IN IF branch \in {"restore", "update"} THEN RemoveDest(f1, PV) ELSE f

\* The runtime_platform iteration up to the rmtree calls.
UpdateRuntime ==
    /\ pc = "update_loop"
    /\ remaining # <<>>
    /\ Head(remaining) = "runtime_platform"
    /\ IF "runtime_platform" \notin DOMAIN json_local.versions
       THEN /\ pc' = "raised"
            /\ error' = "KeyError"
            /\ remaining' = Tail(remaining)
            /\ fs' = fs
            /\ dirExists' = dirExists
       ELSE LET current == json_local.versions["runtime_platform"]
                val == json_root.versions["runtime_platform"]
                found == Glob(fs, current)
            IN \E runtime \in (IF found = {} THEN {NoName} ELSE found) :
                  LET branch == RuntimeBranch(fs, runtime, val, current)
                  IN /\ fs' = RuntimeRemove(fs, runtime, branch)
                     /\ dirExists' =
                           DirAfterRmtree(dirExists,
                                          IF branch = "none" THEN {} ELSE {runtime, PV})
                     /\ error' = error
                     /\ IF branch = "none"
                        THEN /\ pc' = pc
                             /\ remaining' = Tail(remaining)
                        ELSE /\ pc' = "update_submit"
                             /\ remaining' = remaining
    /\ removed' = {n \in Names : Exists(fs[n]) /\ ~Exists(fs'[n])}
    /\ UNCHANGED <<root_file, manifest, json_root, json_local, rtVars, path,
                   manifest0, installed>>

\* futures.append(executor.submit(setup_runtime, json_root)) and the
\* assignment of val to json_local
UpdateSubmit ==
    /\ pc = "update_submit"
    /\ rtpc' = "start"
    /\ json_local' = [json_local EXCEPT !.versions["runtime_platform"] =
                                            json_root.versions["runtime_platform"]]
    /\ remaining' = Tail(remaining)
    /\ pc' = "update_loop"
    /\ removed' = {}
    /\ UNCHANGED <<error, root_file, rterr, dirExists, fs, manifest, json_root,
                   rtver, staging, tasks, replaced, path, manifest0,
                   installed>>

\* Mutant of FuturesJoined: the manifest is written without joining.
FuturesNotAwaited == TRUE

\* Whether the loop over futures has passed every future.
FuturesJoined == rtpc = "idle" \/ RtFinished

\* for _ in futures: _.result(); executor.shutdown()
UpdateJoin ==
    /\ pc = "update_loop"
    /\ remaining = <<>>
    /\ FuturesJoined
    /\ pc' = IF rtpc = "failed" THEN "raised" ELSE "update_write"
    /\ error' = IF rtpc = "failed" THEN rterr ELSE error
    /\ UNCHANGED <<root_file, dirExists, fs, manifest, json_root, json_local, remaining,
                   rtVars, path, manifest0, removed, installed>>

\* dump(json_local, file, indent=4)
UpdateWrite ==
    /\ pc = "update_write"
    /\ manifest' = json_local
    /\ pc' = "completed"
    /\ UNCHANGED <<error, root_file, dirExists, fs, json_root, json_local,
                   remaining, rtVars, path, manifest0, removed, installed>>

_update_umu == UpdateKey \/ UpdateRuntime \/ UpdateSubmit \/ UpdateJoin \/ UpdateWrite

\* ------------------------------------------------------------------------

Next ==
    \/ setup_umu \/ Return \/ ManifestDamaged
    \/ _install_umu \/ _update_umu \/ setup_runtime \/ _move

Spec == Init /\ [][Next]_vars

\* ------------------------------------------------------------------------
\* _get_json alone, on any manifest file

\* Every umu_version.json: absent, without "umu", without "versions", or with
\* any mapping (the empty one too) from component keys to versions.
ManifestFiles ==
    {NoFile,
     [shape |-> "empty", versions |-> NoVersions],
     [shape |-> "no_versions", versions |-> NoVersions]}
        \cup UNION {{OkFile(f) : f \in [D -> Versions \cup TagVersions]} :
                        D \in SUBSET (Keys \cup {"extra"})}

InitGetJson ==
    /\ pc = "idle"
    /\ dirExists = TRUE
    /\ fs = [n \in Names |-> NoEntry]
    /\ manifest \in ManifestFiles
    /\ json_root = NoFile
    /\ json_local = NoFile
    /\ remaining = <<>>
    /\ error = "none"
    /\ root_file = NoFile
    /\ rtpc = "idle"
    /\ rterr = "none"
    /\ rtver = 0
    /\ staging = NoStaging
    /\ tasks = NoTasks
    /\ path = {}
    /\ manifest0 = NoFile
    /\ installed = {}
    /\ removed = {}
    /\ replaced = {}

\* json_local = _get_json(local, CONFIG)
GetJsonCall ==
    LET r == _get_json(manifest)
    IN /\ pc = "idle"
       /\ pc' = IF r.err = "none" THEN "completed" ELSE "raised"
       /\ error' = r.err
       /\ json_local' = IF r.err = "none" THEN r.json ELSE json_local
       /\ UNCHANGED <<dirExists, fs, manifest, json_root, remaining, root_file,
                      path, manifest0, removed, rtVars, installed>>

SpecGetJson == InitGetJson /\ [][GetJsonCall]_vars

\* ------------------------------------------------------------------------
\* Claims

\* The runtime_platform version a manifest file records (0: none).
Recorded(file) ==
    IF "runtime_platform" \in DOMAIN file.versions
    THEN file.versions["runtime_platform"]
    ELSE 0

C2_NoUninstalledVersionRecorded ==
    (/\ pc = "raised"
     /\ path # {}
     /\ manifest.shape = "ok"
     /\ Recorded(manifest) \in Versions
     /\ ~Exists(fs[PlatformDir(Recorded(manifest))]))
        => Recorded(manifest) \in installed

\* The runtime of version v is complete in the Install Directory.
Intact(f, v) == v \in Versions /\ IsDir(f[PlatformDir(v)]) /\ IsDir(f[PV])

\* The update pass is at the iteration of key.
AtIteration(key) ==
    /\ pc = "update_loop"
    /\ remaining # <<>>
    /\ Head(remaining) = key

\* C3 (as claimed): whenever every component version of the reference equals
\* the local one, the update pass schedules no setup_runtime, removes nothing
\* and leaves the manifest file as it was.
C3_MatchingVersionsNoFetch ==
    ("update" \in path /\ json_root.versions = manifest0.versions)
        => /\ rtpc = "idle"
           /\ pc # "update_submit"
           /\ removed = {}
           /\ manifest = manifest0

\* C3 (amended): while every component version matches, the versioned
\* directory and pressure-vessel both exist and nothing was scheduled, no
\* step of the update pass changes the Install Directory or the manifest
\* file, schedules a setup_runtime or raises.
C3_MatchingIntactNoChange ==
    [][(/\ "update" \in path
        /\ pc \notin {"completed", "raised"}
        /\ rtpc = "idle"
        /\ json_root.versions = manifest.versions
        /\ Intact(fs, Recorded(manifest)))
          => /\ fs' = fs
             /\ dirExists' = dirExists
             /\ manifest' = manifest
             /\ rtpc' = "idle"
             /\ pc' \notin {"update_submit", "raised"}]_vars

\* C3 witness: an update pass over matching versions and an intact runtime
\* has completed without a fetch and with the manifest as before.
C3_MatchingPassCompleted ==
    /\ pc = "completed"
    /\ "update" \in path
    /\ rtpc = "idle"
    /\ json_root.versions = manifest0.versions
    /\ manifest = manifest0
    /\ Intact(fs, Recorded(manifest))

\* C4: the iteration of a simple component c whose reference version differs
\* sets c in the local manifest to the reference value, changes no other
\* recorded version, schedules nothing and removes nothing.
C4_SimpleComponentOnly ==
    [][(/\ pc = "update_loop"
        /\ remaining # <<>>
        /\ Head(remaining) \in SimpleKeys
        /\ remaining' = Tail(remaining)
        /\ Head(remaining) \in DOMAIN json_local.versions
        /\ json_root.versions[Head(remaining)] # json_local.versions[Head(remaining)])
          => /\ json_local'.versions =
                    [json_local.versions EXCEPT
                        ![Head(remaining)] = json_root.versions[Head(remaining)]]
             /\ json_local'.shape = json_local.shape
             /\ pc' = "update_loop"
             /\ fs' = fs
             /\ dirExists' = dirExists
             /\ manifest' = manifest
             /\ rtpc' = rtpc
             /\ tasks' = tasks]_vars

\* C4 witness: the loop has ended having changed runner, and only runner, to
\* the reference version, with no fetch scheduled.
C4_OnlyRunnerUpdated ==
    /\ pc = "update_loop"
    /\ remaining = <<>>
    /\ rtpc = "idle"
    /\ Keys \subseteq DOMAIN json_local.versions
    /\ Keys \subseteq DOMAIN json_root.versions
    /\ json_local.versions["runner"] = json_root.versions["runner"]
    /\ json_local.versions["runner"] # manifest.versions["runner"]
    /\ \A k \in Keys \ {"runner"} : json_local.versions[k] = manifest.versions[k]

\* C5: the runtime_platform iteration goes on to schedule a setup_runtime
\* exactly when the directory ending with the local version is missing, or
\* pressure-vessel is missing, or the reference version differs; otherwise it
\* changes nothing.  The scheduled setup_runtime installs the reference
\* version, which is also the version then recorded in the local manifest.
C5_RefetchExactlyWhenNeeded ==
    /\ [][(AtIteration("runtime_platform") /\ Recorded(json_local) \in Versions)
            => /\ (pc' = "update_submit")
                    <=> \/ ~Exists(fs[PlatformDir(Recorded(json_local))])
                        \/ ~IsDir(fs[PV])
                        \/ Recorded(json_root) # Recorded(json_local)
               /\ pc' # "update_submit"
                    => /\ pc' = "update_loop"
                       /\ remaining' = Tail(remaining)
                       /\ fs' = fs
                       /\ json_local' = json_local
                       /\ rtpc' = "idle"]_vars
    /\ [][pc = "update_submit"
            => /\ rtpc' = "start"
               /\ pc' = "update_loop"
               /\ Recorded(json_local') = Recorded(json_root)
               /\ remaining' = Tail(remaining)]_vars
    /\ [](rtver # 0 => rtver = Recorded(json_root))

\* C5 witness: versions are equal and the versioned directory was there, yet
\* a re-fetch is about to be scheduled because the marker was missing.
C5_RepairWithEqualVersions ==
    /\ pc = "update_submit"
    /\ Recorded(json_root) = Recorded(json_local)
    /\ removed = {PlatformDir(Recorded(json_local))}

\* C6: when the versioned directory exists and pressure-vessel does not, the
\* runtime_platform iteration removes the directory and goes on to schedule
\* the re-fetch; a scheduled setup_runtime never starts while the directory of
\* the locally recorded version is present.
C6_DirectoryRemovedBeforeRefetch ==
    /\ [][(/\ AtIteration("runtime_platform")
           /\ Recorded(json_local) \in Versions
           /\ IsDir(fs[PlatformDir(Recorded(json_local))])
           /\ ~IsDir(fs[PV]))
            => /\ pc' = "update_submit"
               /\ ~Exists(fs'[PlatformDir(Recorded(json_local))])]_vars
    /\ []((/\ "update" \in path
           /\ (pc = "update_submit" \/ rtpc = "start")
           /\ Recorded(manifest) \in Versions)
            => ~Exists(fs[PlatformDir(Recorded(manifest))]))

\* C6 witness: the versioned directory, and not the absent marker, was
\* removed and the re-fetch is about to be scheduled.
C6_HalfValidDirectoryRemoved ==
    /\ pc = "update_submit"
    /\ PlatformDir(Recorded(manifest)) \in removed
    /\ PV \notin removed
    /\ ~Exists(fs[PlatformDir(Recorded(manifest))])

\* C7: once _move has moved an entry whose name was a directory at the
\* destination, the destination entry is exactly the source entry: nothing
\* of the old directory is left and the source is not nested inside it.
C7_DirectoryReplacedNotMerged ==
    \A n \in Names :
        (rtpc = "relocate" /\ tasks[n] = "done" /\ n \in replaced)
            => fs[n] = ArchiveEntry(rtver, n)

\* C7 witness: a _move that found a directory of its name at the destination
\* has completed.
C7_ExistingDirectoryReplaced ==
    \E n \in Names :
        /\ rtpc = "relocate"
        /\ tasks[n] = "done"
        /\ n \in replaced
        /\ IsDir(fs[n])

\* C8: setup_runtime is past the relocation only when every submitted _move
\* has completed; when a _move failed, setup_runtime fails, the staging
\* cleanup and the rename are not run and the caller does not complete.
C8_RelocationJoinedFailureRaised ==
    /\ rtpc \in {"cleanup", "rename", "done", "failed"}
          => \A n \in Names : tasks[n] \notin {"pending", "checked"}
    /\ (\E n \in Names : tasks[n] = "failed")
          => /\ rtpc \in {"relocate", "failed"}
             /\ pc \notin {"update_write", "completed"}
             /\ staging.archive
             /\ ~Exists(fs[Umu]) \/ fs[Umu].ver \in installed

\* C8 witness: one _move failed, another was completed, setup_runtime failed
\* after all of them had ended and the failure reached the caller.
C8_MoveFailureReachedCaller ==
    /\ pc = "raised"
    /\ rtpc = "failed"
    /\ \E n \in Names : tasks[n] = "failed"
    /\ \E n \in Names : tasks[n] = "done"
    /\ \A n \in Names : tasks[n] \notin {"pending", "checked"}

\* C9: once the reference manifest is loaded, setup_umu starts the fresh
\* install exactly when the Install Directory is absent or empty, and
\* otherwise the update with the manifest loaded from the Install Directory;
\* an invocation runs one path only, and the fresh install creates the
\* directory, then copies the reference manifest, then runs setup_runtime.
C9_FreshInstallExactlyWhenNew ==
    /\ [][(pc = "idle" /\ pc' # "idle")
            => /\ ("install" \in path')
                    <=> /\ json_root' # NoFile
                        /\ \/ ~dirExists
                           \/ manifest = NoFile /\ \A n \in Names : ~Exists(fs[n])
               /\ ("update" \in path')
                    <=> /\ json_root' # NoFile
                        /\ dirExists
                        /\ manifest # NoFile \/ \E n \in Names : Exists(fs[n])
                        /\ _get_json(manifest).err = "none"
               /\ (pc' = "install_mkdir") <=> ("install" \in path')
               /\ (pc' = "update_loop") <=> ("update" \in path')
               /\ "update" \in path' => json_local' = manifest]_vars
    /\ [](/\ Cardinality(path) <= 1
          /\ pc \in {"install_mkdir", "install_copy", "install_runtime", "install_wait"}
                => path = {"install"}
          /\ pc \in {"update_loop", "update_submit", "update_write"}
                => path = {"update"}
          /\ "install" \in path => removed = {} /\ json_local = NoFile
          /\ "update" \in path => manifest0 # NoFile
          /\ pc \in {"install_copy", "install_runtime", "install_wait"} => dirExists
          /\ pc \in {"install_runtime", "install_wait"} => manifest = json_root
          /\ pc \in {"install_mkdir", "install_copy", "install_runtime"}
                => rtpc = "idle" /\ manifest0 = NoFile)

\* C9 witness: the Install Directory exists and is empty, and setup_umu has
\* started the fresh install.
C9_EmptyDirectoryInstalled ==
    /\ pc = "install_mkdir"
    /\ path = {"install"}
    /\ dirExists
    /\ manifest = NoFile

\* C10 (as claimed): after a fresh install that completed, the manifest file
\* equals the reference manifest, every top-level entry of the archive root
\* is in the Install Directory, umu is there and _v2-entry-point is not.
C10_EveryArchiveEntryPresent ==
    (pc = "completed" /\ "install" \in path)
        => /\ manifest = json_root
           /\ \A n \in ArchiveEntries(rtver) : Exists(fs[n])
           /\ Exists(fs[Umu])
           /\ ~Exists(fs[EntryPoint])

\* C10 (amended): after a fresh install that completed, the manifest file
\* equals the reference manifest, every top-level entry of the archive root
\* other than _v2-entry-point is in the Install Directory with the archive's
\* content, _v2-entry-point is there under the name umu and no entry
\* _v2-entry-point is left.
C10_FreshInstallResult ==
    (pc = "completed" /\ "install" \in path)
        => /\ manifest = json_root
           /\ rtver = Recorded(json_root)
           /\ \A n \in ArchiveEntries(rtver) \ {EntryPoint} :
                 fs[n] = ArchiveEntry(rtver, n)
           /\ fs[Umu] = ArchiveEntry(rtver, EntryPoint)
           /\ ~Exists(fs[EntryPoint])

\* C10 witness: a fresh install into an Install Directory without a manifest
\* has completed.
C10_FreshInstallCompleted ==
    /\ pc = "completed"
    /\ "install" \in path
    /\ manifest0 = NoFile
    /\ rtpc = "done"

\* C11 (as claimed): when a setup_runtime call has ended, by return or by
\* exception, nothing is left of the staging directory it created: not the
\* directory, not the downloaded archive, not the extracted subtree.
C11_StagingRemovedAtEnd == RtFinished => staging = NoStaging

\* C12 (as claimed): whatever the value of UMU_ZENITY, setup_runtime reaches
\* tar_open only with an archive in the staging directory that the popup
\* fetch or the direct fetch has produced.
C12_ArchiveFetchedBeforeOpen == rtpc = "open" => staging.archive

\* C13: when the direct fetch fails, setup_runtime ends there with the error:
\* it has started no extraction and no _move, and neither it nor its caller
\* changes the Install Directory, its entries or the manifest file from then
\* on; up to the fetch setup_runtime has changed no entry either, so after a
\* fresh install that failed this way the directory holds no entry.
C13_FailedFetchChangesNothing ==
    /\ [](rterr = "urlopen"
            => /\ rtpc = "failed"
               /\ tasks = NoTasks
               /\ ~staging.root
               /\ ~staging.archive
               /\ pc \notin {"update_write", "completed"}
               /\ "install" \in path => \A n \in Names : ~Exists(fs[n]))
    /\ [][(rtpc = "start" \/ rtpc = "fetch")
            => /\ fs' = fs
               /\ dirExists' = dirExists
               /\ manifest' = manifest]_vars
    /\ [][rterr = "urlopen"
            => /\ fs' = fs
               /\ dirExists' = dirExists
               /\ manifest' = manifest
               /\ rtpc' \in {"failed", "idle"}]_vars

\* C13 witness: the direct fetch of a fresh install failed, the error reached
\* the caller and the Install Directory, created by _install_umu, is empty.
C13_FreshInstallFetchFailed ==
    /\ pc = "raised"
    /\ error = "urlopen"
    /\ rterr = "urlopen"
    /\ "install" \in path
    /\ dirExists
    /\ \A n \in Names : ~Exists(fs[n])

\* C14: _get_json raises FileNotFoundError exactly for an absent file,
\* ValueError exactly for a file without "umu", without "versions" or with an
\* empty "versions" mapping, and returns, with the content of the file, exactly
\* when "umu" and a non-empty "versions" are there.
C14_LoaderAcceptsOnlyValid ==
    pc # "idle" =>
        /\ error = "FileNotFoundError" <=> manifest.shape = "absent"
        /\ error = "ValueError"
              <=> \/ manifest.shape \in {"empty", "no_versions"}
                  \/ manifest.shape = "ok" /\ DOMAIN manifest.versions = {}
        /\ pc = "completed"
              <=> manifest.shape = "ok" /\ DOMAIN manifest.versions # {}
        /\ pc = "completed" => error = "none" /\ json_local = manifest
        /\ pc = "raised" => json_local = NoFile

\* C14 witness: _get_json has raised ValueError on a file whose "versions"
\* mapping is empty.
C14_EmptyVersionsRejected ==
    /\ pc = "raised"
    /\ error = "ValueError"
    /\ manifest = OkFile(NoVersions)
    /\ path = {}
    /\ root_file = NoFile

\* C15: a setup_umu call that finds the reference manifest absent or
\* malformed, or, the Install Directory being there and not empty, the local
\* manifest absent or malformed, raises FileNotFoundError or ValueError in
\* that very step: the directory, its entries and the manifest file are as
\* before, neither path is entered and no setup_runtime is started; nothing
\* changes afterwards either.
C15_BadManifestRaisesBeforeChange ==
    /\ [][(/\ pc = "idle"
           /\ pc' # "idle"
           /\ \/ root_file'.shape # "ok"
              \/ DOMAIN root_file'.versions = {}
              \/ /\ dirExists
                 /\ manifest # NoFile \/ \E n \in Names : Exists(fs[n])
                 /\ manifest.shape # "ok" \/ DOMAIN manifest.versions = {})
            => LET bad == IF root_file'.shape # "ok" \/ DOMAIN root_file'.versions = {}
                          THEN root_file'
                          ELSE manifest
               IN /\ pc' = "raised"
                  /\ error' = IF bad.shape = "absent"
                              THEN "FileNotFoundError"
                              ELSE "ValueError"
                  /\ dirExists' = dirExists
                  /\ fs' = fs
                  /\ manifest' = manifest
                  /\ rtpc' = "idle"
                  /\ path' = {}]_vars
    /\ [][(pc = "raised" /\ path = {})
            => /\ pc' \in {"raised", "idle"}
               /\ dirExists' = dirExists
               /\ fs' = fs
               /\ manifest' = manifest
               /\ rtpc' = "idle"]_vars

\* C15 witness: with a valid reference manifest and an installed runtime,
\* setup_umu has raised ValueError on a local manifest without "versions".
C15_MalformedLocalRaised ==
    /\ pc = "raised"
    /\ path = {}
    /\ error = "ValueError"
    /\ root_file.shape = "ok"
    /\ DOMAIN root_file.versions # {}
    /\ manifest.shape = "no_versions"
    /\ Exists(fs[Umu])
    /\ rtpc = "idle"

\* C16 (as claimed): a setup_umu call given the reference manifest that an
\* earlier install copied does not complete without having scheduled a
\* setup_runtime while the Install Directory has no umu, the state a failed
\* install leaves behind.
C16_NoIdleCompletionWithoutUmu ==
    (/\ pc = "completed"
     /\ "update" \in path
     /\ rtpc = "idle"
     /\ json_root = manifest0)
        => Exists(fs[Umu])

\* C17 (as claimed): when _update_umu has ended, by return or by exception, no
\* setup_runtime it scheduled is still running.
C17_UpdateEndsAfterRefetch ==
    (pc \in {"completed", "raised"} /\ "update" \in path)
        => rtpc \in {"idle", "done", "failed"}

\* C18: in the relocation a _move moves its entry only after its own check,
\* which has left no directory of that name at the destination; a step of
\* the _move of one name changes the destination entry of no other name; and
\* whatever the order of the steps, an entry that was moved is the source's
\* entry, so that with every _move done the archive's names hold the archive's
\* content and every other name what it held before.
C18_MoveOrderAndIndependence ==
    /\ [][\A n \in Names :
            (tasks'[n] = "done" /\ tasks[n] # "done") => tasks[n] = "checked"]_vars
    /\ [](\A n \in Names :
            (rtpc = "relocate" /\ tasks[n] = "checked") => ~IsDir(fs[n]))
    /\ [][rtpc = "relocate"
            => \A n \in Names : tasks'[n] = tasks[n] => fs'[n] = fs[n]]_vars
    /\ [](\A n \in Names :
            (rtpc = "relocate" /\ tasks[n] = "done")
                => n \in ArchiveEntries(rtver) /\ fs[n] = ArchiveEntry(rtver, n))

\* C18 witness: every _move of a relocation is done, one of them after having
\* removed a directory of its name, and an entry of no archive name is there.
C18_AllMovesDone ==
    /\ rtpc = "relocate"
    /\ \A n \in ArchiveEntries(rtver) : tasks[n] = "done"
    /\ replaced # {}
    /\ \E n \in Names \ ArchiveEntries(rtver) : Exists(fs[n])

\* C19: when an update pass has completed, the manifest file is well-formed
\* and has the keys it had before; each of reaper, runtime_platform, launcher
\* and runner that the reference manifest has is recorded at the reference's
\* version, and every key the reference does not have at the version recorded
\* before.
C19_WrittenManifestMatchesReference ==
    (pc = "completed" /\ "update" \in path)
        => /\ manifest.shape = "ok"
           /\ DOMAIN manifest.versions = DOMAIN manifest0.versions
           /\ \A k \in Keys \cap DOMAIN json_root.versions :
                 /\ k \in DOMAIN manifest.versions
                 /\ manifest.versions[k] = json_root.versions[k]
           /\ \A k \in DOMAIN manifest0.versions \ DOMAIN json_root.versions :
                 manifest.versions[k] = manifest0.versions[k]

\* C19 witness: an update pass against the reference of the release without
\* runner and with "extra" has completed: the runtime went from version 2 to
\* the reference's version, runner stays at 2 and "extra" is not recorded.
C19_OtherReleaseReconciled ==
    /\ pc = "completed"
    /\ "update" \in path
    /\ json_root.versions = OtherRelease
    /\ "runner" \in DOMAIN manifest.versions
    /\ manifest.versions["runner"] = 2
    /\ "extra" \notin DOMAIN manifest.versions
    /\ Recorded(manifest0) = 2
    /\ Recorded(manifest) = 1

\* C20: no step takes the Install Directory away once it exists; an entry of
\* it disappears only as the versioned directory of the recorded version or
\* pressure-vessel in the runtime_platform iteration, as a directory with the
\* name of the entry a _move is about to move, or as _v2-entry-point when it
\* is renamed to umu.
C20_InstallDirectoryKept ==
    /\ [][dirExists => dirExists']_vars
    /\ [][\A n \in Names :
            (Exists(fs[n]) /\ ~Exists(fs'[n]))
                => \/ /\ AtIteration("runtime_platform")
                      /\ n \in {PV, PlatformDir(Recorded(json_local))}
                   \/ /\ rtpc = "relocate"
                      /\ tasks[n] = "pending"
                      /\ IsDir(fs[n])
                   \/ /\ rtpc = "rename"
                      /\ n = EntryPoint
                      /\ Exists(fs'[Umu])]_vars
    /\ [](dirExists \/ \A n \in Names : ~Exists(fs[n]))

\* C20 witness: the update pass removed pressure-vessel, the re-fetch failed
\* in the relocation after one _move was done, setup_umu raised, and the
\* Install Directory is there.
C20_DirectoryThereAfterFailedUpdate ==
    /\ pc = "raised"
    /\ "update" \in path
    /\ rterr = "_move"
    /\ ~Exists(fs[PV])
    /\ \E n \in Names : tasks[n] = "done"
    /\ dirExists

====
